---- MODULE Spec2Model ----
(***************************************************************************)
(* A model of yacbi (Yet Another Clang-Based Indexer), src/yacbi.py:       *)
(* the incremental update of the index database.  The SQL store is the     *)
(* five tables of _init_db, the file manager is _FileManager, the parser   *)
(* (libclang) is replaced by a small world of files that include each      *)
(* other.                                                                  *)
(***************************************************************************)
EXTENDS Integers, Sequences, FiniteSets, TLC

(***************************************************************************)
(* Bounds of the model.                                                    *)
(***************************************************************************)
\* number of update runs in one behaviour
MaxRuns == 2
\* number of changes of the environment (compilation database, filesystem)
MaxChanges == 1
\* number of add_reference calls on one _Index
MaxCalls == 3
\* number of arguments of a command line given to _make_compile_args
MaxArgs == 2
\* number of extra_args given to _make_compile_args
MaxExtra == 1
\* the most save_indices calls for the arguments of one _make_compile_args call
MaxSaves == 2

(***************************************************************************)
(* The world: paths.  Every path of a file is absolute and normalized;     *)
(* relative spellings appear only in raw argument vectors.                 *)
(***************************************************************************)
\* a.cpp and b.cpp are C++ sources, h.h and g.h headers under the project
\* root, s.h a header outside of the project root
Paths == {"/p/a.cpp", "/p/b.cpp", "/p/h.h", "/p/g.h", "/usr/s.h"}
RootPaths == {"/p/a.cpp", "/p/b.cpp", "/p/h.h", "/p/g.h"}
CppPaths == {"/p/a.cpp", "/p/b.cpp"}
\* headers that produce no cursor when parsed (empty or purely re-exporting)
EmptyPaths == {"/p/g.h"}
\* the project root, and root + os.path.sep
Root == "/p"
RootSep == "/p/"
\* the "directory" of every entry of compile_commands.json
Cwd == "/p"

\* os.path.isabs, os.path.join and os.path.normpath, as posixpath has them
startswith(s, prefix) ==
    Len(s) >= Len(prefix) /\ SubSeq(s, 1, Len(prefix)) = prefix
endswith(s, suffix) ==
    Len(s) >= Len(suffix) /\ SubSeq(s, Len(s) - Len(suffix) + 1, Len(s)) = suffix

isabs(path) == startswith(path, "/")

join(cwd, path) ==
    IF isabs(path) THEN path
    ELSE IF cwd = "" \/ endswith(cwd, "/") THEN cwd \o path
    ELSE cwd \o "/" \o path

\* path.split('/'): the component being read starts at start
RECURSIVE split_from(_, _, _, _)
split_from(s, i, start, comps) ==
    IF i > Len(s) THEN Append(comps, SubSeq(s, start, Len(s)))
    ELSE IF SubSeq(s, i, i) = "/"
    THEN split_from(s, i + 1, i + 1, Append(comps, SubSeq(s, start, i - 1)))
    ELSE split_from(s, i + 1, start, comps)

\* the loop of normpath over the components
RECURSIVE new_comps_from(_, _, _, _)
new_comps_from(comps, i, initial_slashes, new_comps) ==
    IF i > Len(comps) THEN new_comps
    ELSE
      LET comp == comps[i] IN
      IF comp \in {"", "."}
      THEN new_comps_from(comps, i + 1, initial_slashes, new_comps)
      ELSE IF \/ comp # ".."
              \/ initial_slashes = 0 /\ new_comps = << >>
              \/ new_comps # << >> /\ new_comps[Len(new_comps)] = ".."
      THEN new_comps_from(comps, i + 1, initial_slashes,
                          Append(new_comps, comp))
      ELSE IF new_comps # << >>
      THEN new_comps_from(comps, i + 1, initial_slashes,
                          SubSeq(new_comps, 1, Len(new_comps) - 1))
      ELSE new_comps_from(comps, i + 1, initial_slashes, new_comps)

\* '/'.join(comps)
RECURSIVE join_comps(_)
join_comps(comps) ==
    IF comps = << >> THEN ""
    ELSE IF Len(comps) = 1 THEN comps[1]
    ELSE comps[1] \o "/" \o join_comps(Tail(comps))

normpath(path) ==
    IF path = "" THEN "."
    ELSE
      LET initial_slashes ==
              IF startswith(path, "//") /\ ~startswith(path, "///") THEN 2
              ELSE IF startswith(path, "/") THEN 1
              ELSE 0
          new_comps == new_comps_from(split_from(path, 1, 1, << >>), 1,
                                      initial_slashes, << >>)
          slashes == IF initial_slashes = 2 THEN "//"
                     ELSE IF initial_slashes = 1 THEN "/" ELSE ""
          result == slashes \o join_comps(new_comps)
      IN  IF result = "" THEN "." ELSE result

\* _make_absolute_path without the test of os.path.isabs
make_absolute_path_joined(cwd, path) ==
    normpath(cwd \o "/" \o path)

make_absolute_path(cwd, path) ==
    IF isabs(path) THEN normpath(path) ELSE normpath(join(cwd, path))

(***************************************************************************)
(* Compile arguments.  An argument is a pair <<prefix, rest>>: the prefix  *)
(* is the longest of the prefixes the normalizer tests for that the        *)
(* argument starts with ("" when there is none), the rest is what follows. *)
(* <<"-I", "">> is the argument -I, <<"-I", "inc">> is -Iinc and           *)
(* <<"", "inc">> is inc.                                                   *)
(***************************************************************************)
PATH_ARGS == {"-include", "-isystem", "-I", "-iquote", "--sysroot=", "-isysroot"}
KeepPrefixes == {"-D", "-W", "-std="}

CompileArgs(all_args, includes, has_x) ==
    [all_args |-> all_args, includes |-> includes, has_x |-> has_x]

\* the state of the loop of _make_compile_args after the argument at i:
\* the position of the next argument and the result so far
handle_two_part_arg(toks, i, acc) ==
    LET r1 == Append(acc.all_args, toks[i])
    IN  IF i + 1 <= Len(toks)
        THEN [acc EXCEPT !.all_args = Append(r1, toks[i + 1])]
        ELSE [acc EXCEPT !.all_args = r1]

handle_two_part_include_arg(toks, i, acc, cwd) ==
    LET r1 == Append(acc.all_args, toks[i])
    IN  IF i + 1 <= Len(toks)
        THEN LET abs_path == make_absolute_path(cwd, toks[i + 1][1] \o toks[i + 1][2])
             IN  [acc EXCEPT
                    !.includes = IF toks[i] = <<"-include", "">>
                                 THEN @ \cup {abs_path} ELSE @,
                    !.all_args = Append(r1, <<"", abs_path>>)]
        ELSE [acc EXCEPT !.all_args = r1]

handle_one_part_include_arg(arg, acc, cwd) ==
    IF arg[1] \in PATH_ARGS
    THEN LET abs_path == make_absolute_path(cwd, arg[2])
         IN  [acc EXCEPT
                !.includes = IF arg[1] = "-include"
                             THEN @ \cup {abs_path} ELSE @,
                !.all_args = Append(@, <<arg[1], abs_path>>)]
    ELSE acc

RECURSIVE make_compile_args_from(_, _, _, _, _)
make_compile_args_from(cwd, toks, banned_args, i, acc) ==
    IF i > Len(toks) THEN acc
    ELSE
      LET arg == toks[i] IN
      IF arg \in banned_args
      THEN make_compile_args_from(cwd, toks, banned_args, i + 1, acc)
      ELSE IF arg = <<"", "-nostdinc">> \/ arg[1] \in KeepPrefixes
      THEN make_compile_args_from(cwd, toks, banned_args, i + 1,
               [acc EXCEPT !.all_args = Append(@, arg)])
      ELSE IF arg = <<"", "-x">>
      THEN make_compile_args_from(cwd, toks, banned_args, i + 2,
               handle_two_part_arg(toks, i, [acc EXCEPT !.has_x = TRUE]))
      ELSE IF arg = <<"", "-Xpreprocessor">>
      THEN make_compile_args_from(cwd, toks, banned_args, i + 2,
               handle_two_part_arg(toks, i, acc))
      ELSE IF arg[1] \in PATH_ARGS /\ arg[2] = ""
      THEN make_compile_args_from(cwd, toks, banned_args, i + 2,
               handle_two_part_include_arg(toks, i, acc, cwd))
      ELSE make_compile_args_from(cwd, toks, banned_args, i + 1,
               handle_one_part_include_arg(arg, acc, cwd))

make_compile_args(cwd, args, extra_args, banned_args) ==
    make_compile_args_from(cwd, args \o extra_args, banned_args, 1,
                           CompileArgs(<<>>, {}, FALSE))

is_cpp_source(path) == path \in CppPaths


(***************************************************************************)
(* State.                                                                  *)
(***************************************************************************)
VARIABLES
    compdb,     \* the paths listed in compile_commands.json
    nocmd,      \* the paths for which the compilation database has no command
    ondisk,     \* the files that exist
    mtime,      \* the modification time of every file
    fsinc,      \* the #include directives: <<including, included>>
    inlines,    \* the paths the patterns of inline_files match
    disk,       \* the committed contents of the five tables of index.db
    db,         \* the tables as the connection of update sees them
    before,     \* the committed contents when the current run started
    fm,         \* the _FileManager of the current run
    cmd,        \* the compile command the iterator yielded last
    indices,    \* idx_by_path.values() of the current Indexer
    errors,     \* True when an indexer of the current run reported errors
    yielded,    \* the commands the iterator yielded in the current run
    pc,         \* the position of update
    raised,     \* the exception that ended the run, None when there is none
    dirty,      \* the run that failed had written to the tables
    runs,       \* the number of runs started
    changes,    \* the number of changes of the environment
    quiet,      \* the last run committed and the environment is as it left it
    rerun,      \* quiet, when the current run started
    saved,      \* the save_indices calls of the current run: the file of the
                \* command and the files of the indices saved
    references_by_usr,  \* references_by_usr of one _Index under test
    calls,      \* the add_reference calls made on it, in order
    argv,       \* the arguments of one _make_compile_args call under test
    extra,      \* its extra_args
    banned,     \* its banned_args
    made        \* its result, NotMade before the call

vars == <<compdb, nocmd, ondisk, mtime, fsinc, inlines, disk, db, before, fm, cmd,
          indices, errors, yielded, pc, raised, dirty, runs, changes, quiet,
          rerun, saved, references_by_usr, calls, argv, extra, banned, made>>
run == <<db, before, fm, cmd, indices, errors, yielded, pc, raised, dirty,
         runs, rerun, saved>>
env == <<compdb, nocmd, ondisk, mtime, fsinc, inlines>>
one_index == <<references_by_usr, calls>>
one_call == <<argv, extra, banned, made>>

\* None, as a path and as a row id
None == "None"
NoId == 0

(***************************************************************************)
(* compile_commands.json: the argument vector of every entry, as written.  *)
(***************************************************************************)
RawArgs(path) ==
    IF path = "/p/a.cpp"
    THEN << <<"", "clang++">>, <<"-include", "">>, <<"", "./g.h">>,
            <<"", "-c">> >>
    ELSE IF path = "/p/b.cpp"
    THEN << <<"-include", "../usr/s.h">>, <<"-D", "B">> >>
    ELSE << >>

\* config.json of the model's project: no extra and no banned arguments
extra_args == << >>
banned_args == {}

CompileCommand(filename, args, current_dir, is_included) ==
    [filename |-> filename, args |-> args, current_dir |-> current_dir,
     is_included |-> is_included]

\* _CompilationDatabase.get_all_files
get_all_files == compdb

\* _CompilationDatabase.get_compile_command
NoneCommand ==
    CompileCommand(None, CompileArgs(<< >>, {}, FALSE), None, FALSE)

get_compile_command(filename) ==
    IF filename \notin compdb THEN NoneCommand
    ELSE IF filename \in nocmd THEN NoneCommand
    ELSE CompileCommand(filename,
                        make_compile_args(Cwd, RawArgs(filename),
                                          extra_args, banned_args),
                        Cwd, FALSE)

(***************************************************************************)
(* The store: every table is a set of rows.  A row of compile_args has the *)
(* id sqlite gives it: one more than the greatest id in the table.         *)
(***************************************************************************)
EmptyTables ==
    [files |-> {}, compile_args |-> {}, includes |-> {}, symbols |-> {},
     refs |-> {}]

Max(S) == CHOOSE x \in S : \A y \in S : y <= x

\* the rowid SQLite gives to a row inserted without an id
lastrowid(rows) == IF rows = {} THEN 1 ELSE Max({r.id : r \in rows}) + 1

\* SELECT id FROM files WHERE path = ? LIMIT 1
file_id_of(T, path) ==
    IF \E f \in T.files : f.path = path
    THEN (CHOOSE f \in T.files : f.path = path).id
    ELSE NoId

file_row(T, id) == CHOOSE f \in T.files : f.id = id

\* DELETE FROM files WHERE id = ?  on the connection of _connect_to_db, which
\* never issues PRAGMA foreign_keys=ON: no other table is touched
delete_file(T, id) ==
    [T EXCEPT !.files = {f \in @ : f.id # id}]

\* _FileManager._save_file: the tables and the id of the row
save_file(T, path, cwd, is_included, now) ==
    LET file_id == file_id_of(T, path) IN
    IF file_id = NoId
    THEN LET new == lastrowid(T.files) IN
         [T |-> [T EXCEPT !.files = @ \cup
                    {[id |-> new, path |-> path, working_dir |-> cwd,
                      last_update |-> now, is_included |-> is_included]}],
          id |-> new]
    ELSE [T |-> [T EXCEPT !.files = {f \in @ : f.id # file_id} \cup
                    {[id |-> file_id, path |-> path, working_dir |-> cwd,
                      last_update |-> now, is_included |-> is_included]}],
          id |-> file_id]

\* a function with the key k set to v
With(f, k, v) == [x \in DOMAIN f \cup {k} |-> IF x = k THEN v ELSE f[x]]

\* _FileManager._save_args: the rows of the file are deleted, then one row
\* is inserted for each argument, in the order of the list
save_args(T, file_id, args) ==
    LET kept == {r \in T.compile_args : r.file_id # file_id}
        last == IF kept = {} THEN 0 ELSE Max({r.id : r \in kept})
    IN  [T EXCEPT !.compile_args =
           kept \cup {[id |-> last + i, file_id |-> file_id, arg |-> args[i]] :
                       i \in DOMAIN args}]

\* SELECT arg FROM compile_args WHERE file_id = ? ORDER BY id
args_of(T, file_id) ==
    LET rows == {r \in T.compile_args : r.file_id = file_id} IN
    [i \in 1 .. Cardinality(rows) |->
       (CHOOSE r \in rows :
          Cardinality({q \in rows : q.id < r.id}) = i - 1).arg]


(***************************************************************************)
(* _Index: the references and the include edges of one file, collected     *)
(* during one parse.  references_by_usr maps a USR to a map from           *)
(* <<line, column>> to <<is_definition, kind>>.                            *)
(***************************************************************************)
Index(c) ==
    [filename |-> c.filename,
     cwd |-> c.current_dir,
     args |-> c.args,
     includes |-> {},
     references_by_usr |-> << >>,
     is_included |-> c.is_included,
     child_args |->
        IF ~c.args.has_x /\ is_cpp_source(c.filename)
        \* the code passes cwd as the includes of the child arguments; the
        \* field of child_args is never read, {} stands for it
        THEN CompileArgs(<< <<"", "-x">>, <<"", "c++">> >> \o c.args.all_args,
                         {}, TRUE)
        ELSE c.args]

\* a comparison of the kinds alone
ref_greater_kind(ref, old_ref) == ref[2] > old_ref[2]

\* ref > old_ref on _ReferenceData(is_definition, kind), compared as tuples
ref_greater(ref, old_ref) ==
    \/ ref[1] /\ ~old_ref[1]
    \/ ref[1] = old_ref[1] /\ ref[2] > old_ref[2]

\* _Index.add_reference, on references_by_usr
add_reference(refs_by_usr, usr, loc, ref) ==
    IF usr \notin DOMAIN refs_by_usr
    THEN With(refs_by_usr, usr, With(<< >>, loc, ref))
    ELSE LET refs == refs_by_usr[usr] IN
         IF loc \notin DOMAIN refs \/ ref_greater(ref, refs[loc])
         THEN With(refs_by_usr, usr, With(refs, loc, ref))
         ELSE refs_by_usr

FileInclusion(included_path, line, column) ==
    [included_path |-> included_path, line |-> line, column |-> column]

\* _Index.make_child_compile_command
make_child_compile_command(idx, child_filename) ==
    CompileCommand(child_filename, idx.child_args, idx.cwd, TRUE)

(***************************************************************************)
(* _FileManager.                                                           *)
(***************************************************************************)
NoManager ==
    [visited |-> {}, sources_to_add |-> {}, sources_to_update |-> {},
     headers_to_update |-> {}, inlines_to_update |-> {}, now |-> 0]

\* _FileManager._is_inline
is_inline(path) == path \in inlines

\* the comparison of needs_update the other way round
needs_update_reversed(f) == mtime[f.path] <= f.last_update

\* _FileManager.File.needs_update, for a file that exists
needs_update(f) == mtime[f.path] >= f.last_update

\* _FileManager._remove_files: the tables and the set of removed paths
RECURSIVE remove_files(_, _, _)
remove_files(T, paths, removed) ==
    IF paths = {} THEN [T |-> T, removed |-> removed]
    ELSE
      LET path == CHOOSE x \in paths : TRUE
          file_id == file_id_of(T, path)
      IN  IF \E i \in T.includes : i.included_file_id = file_id
          THEN remove_files(
                 [T EXCEPT !.files =
                    {IF f.id = file_id THEN [f EXCEPT !.is_included = TRUE]
                     ELSE f : f \in @}],
                 paths \ {path}, removed)
          ELSE remove_files(delete_file(T, file_id), paths \ {path},
                            removed \cup {path})

\* the constructor when src_paths holds the included files as well
FileManager_any_row(T, now) ==
    LET files == T.files
        comp_db_paths == get_all_files
        gone == {f.path : f \in {x \in files : x.path \notin ondisk}}
        src_paths == {f.path : f \in {x \in files :
                          x.path \in ondisk /\ ~x.is_included}}
        stored_paths == {f.path : f \in files}
        paths_to_remove == src_paths \ comp_db_paths
        r == remove_files(T, paths_to_remove, {})
        removed_paths == gone \cup r.removed
        kept == {f \in files : f.path \notin removed_paths}
        stale == {f \in kept : needs_update(f)}
    IN  [T |-> r.T,
         fm |-> [visited |-> {f.path : f \in kept \ stale},
                 sources_to_add |-> comp_db_paths \ stored_paths,
                 sources_to_update |->
                    {f.path : f \in {x \in stale : ~x.is_included}},
                 headers_to_update |->
                    {f.path : f \in {x \in stale :
                        x.is_included /\ ~is_inline(x.path)}},
                 inlines_to_update |->
                    {f.path : f \in {x \in stale :
                        x.is_included /\ is_inline(x.path)}},
                 now |-> now]]

\* _FileManager.__init__: the tables and the manager
FileManager(T, now) ==
    LET files == T.files
        comp_db_paths == get_all_files
        gone == {f.path : f \in {x \in files : x.path \notin ondisk}}
        src_paths == {f.path : f \in {x \in files :
                          x.path \in ondisk /\ ~x.is_included}}
        paths_to_remove == src_paths \ comp_db_paths
        r == remove_files(T, paths_to_remove, {})
        removed_paths == gone \cup r.removed
        kept == {f \in files : f.path \notin removed_paths}
        stale == {f \in kept : needs_update(f)}
    IN  [T |-> r.T,
         fm |-> [visited |-> {f.path : f \in kept \ stale},
                 sources_to_add |-> comp_db_paths \ src_paths,
                 sources_to_update |->
                    {f.path : f \in {x \in stale : ~x.is_included}},
                 headers_to_update |->
                    {f.path : f \in {x \in stale :
                        x.is_included /\ ~is_inline(x.path)}},
                 inlines_to_update |->
                    {f.path : f \in {x \in stale :
                        x.is_included /\ is_inline(x.path)}},
                 now |-> now]]

\* should_index without the test of visited
should_index_unvisited(m, path) ==
    LET m1 == [m EXCEPT !.visited = @ \cup {path}] IN
    IF path \in m.inlines_to_update
    THEN [ok |-> TRUE, fm |-> [m1 EXCEPT !.inlines_to_update = @ \ {path}]]
    ELSE IF path \in m.headers_to_update
    THEN [ok |-> TRUE, fm |-> [m1 EXCEPT !.headers_to_update = @ \ {path}]]
    ELSE IF path \in m.sources_to_add \/ path \in m.sources_to_update
    THEN [ok |-> FALSE, fm |-> m1]
    ELSE [ok |-> path \in RootPaths, fm |-> m1]

\* _FileManager.should_index: the answer and the manager after the call
should_index(m, path) ==
    IF path \in m.visited THEN [ok |-> FALSE, fm |-> m]
    ELSE
      LET m1 == [m EXCEPT !.visited = @ \cup {path}] IN
      IF path \in m.inlines_to_update
      THEN [ok |-> TRUE, fm |-> [m1 EXCEPT !.inlines_to_update = @ \ {path}]]
      ELSE IF path \in m.headers_to_update
      THEN [ok |-> TRUE, fm |-> [m1 EXCEPT !.headers_to_update = @ \ {path}]]
      ELSE IF path \in m.sources_to_add \/ path \in m.sources_to_update
      THEN [ok |-> FALSE, fm |-> m1]
      ELSE [ok |-> path \in RootPaths, fm |-> m1]


\* _FileManager._save_refs, the loop: usrs is the order in which the dict
\* refs_by_usr lists its keys
RECURSIVE save_refs_from(_, _, _, _)
save_refs_from(T, file_id, refs_by_usr, usrs) ==
    IF usrs = << >> THEN T
    ELSE
      LET usr == Head(usrs)
          known == \E y \in T.symbols : y.usr = usr
          symbol_id == IF known
                       THEN (CHOOSE y \in T.symbols : y.usr = usr).id
                       ELSE lastrowid(T.symbols)
          refs == refs_by_usr[usr]
          T1 == [T EXCEPT
                   !.symbols = IF known THEN @
                               ELSE @ \cup {[id |-> symbol_id, usr |-> usr]},
                   !.refs = @ \cup
                       {[symbol_id |-> symbol_id, file_id |-> file_id,
                         line |-> l[1], column |-> l[2],
                         kind |-> refs[l][2], is_definition |-> refs[l][1]]
                        : l \in DOMAIN refs}]
      IN  save_refs_from(T1, file_id, refs_by_usr, Tail(usrs))

\* _FileManager._save_refs
save_refs(T, file_id, refs_by_usr, usrs) ==
    save_refs_from([T EXCEPT !.refs = {r \in @ : r.file_id # file_id}],
                   file_id, refs_by_usr, usrs)

\* _FileManager._save_includes, the loop over idx.includes, incs being the
\* order in which the set lists its elements: the tables, the manager and
\* the rows to insert
RECURSIVE save_includes_from(_, _, _, _, _, _)
save_includes_from(T, m, idx, file_id, incs, inc_values) ==
    IF incs = << >> THEN [T |-> T, fm |-> m, inc_values |-> inc_values]
    ELSE
      LET inc == Head(incs)
          path == inc.included_path
          inc_id == file_id_of(T, path)
          rest == Tail(incs)
      IN  IF inc_id # NoId
          THEN save_includes_from(T, m, idx, file_id, rest, inc_values \cup
                 {[including_file_id |-> file_id, included_file_id |-> inc_id,
                   line |-> inc.line, column |-> inc.column]})
          ELSE
            LET s == should_index(m, path) IN
            IF s.ok
            THEN LET f == save_file(T, path, RootSep, TRUE, m.now)
                     T2 == save_args(f.T, f.id, idx.child_args.all_args)
                 IN  save_includes_from(T2, s.fm, idx, file_id, rest,
                       inc_values \cup
                       {[including_file_id |-> file_id,
                         included_file_id |-> f.id,
                         line |-> inc.line, column |-> inc.column]})
            ELSE save_includes_from(T, s.fm, idx, file_id, rest, inc_values)

\* _save_includes without the dummy entry for a file that has no row
save_includes_no_dummy(T, m, idx, file_id, incs) ==
    LET T1 == [T EXCEPT !.includes =
                  {i \in @ : i.including_file_id # file_id}]
        r == save_includes_from(T1, m, idx, file_id,
                SelectSeq(incs,
                    LAMBDA x : file_id_of(T1, x.included_path) # NoId),
                {})
    IN  [T |-> [r.T EXCEPT !.includes = @ \cup r.inc_values], fm |-> r.fm]

\* _FileManager._save_includes
save_includes(T, m, idx, file_id, incs) ==
    LET T1 == [T EXCEPT !.includes =
                  {i \in @ : i.including_file_id # file_id}]
        r == save_includes_from(T1, m, idx, file_id, incs, {})
    IN  [T |-> [r.T EXCEPT !.includes = @ \cup r.inc_values], fm |-> r.fm]

\* _FileManager.save_indices, first loop, over the indices in the order of
\* idx_by_path.values(): the tables.  An element of order is an index with
\* the orders in which its dict references_by_usr and its set includes are
\* iterated.
RECURSIVE save_files_from(_, _, _, _)
save_files_from(T, m, order, i) ==
    IF i > Len(order) THEN T
    ELSE
      LET idx == order[i].idx
          f == save_file(T, idx.filename, idx.cwd, idx.is_included, m.now)
          T2 == save_args(f.T, f.id, idx.args.all_args)
          T3 == save_refs(T2, f.id, idx.references_by_usr, order[i].usrs)
      IN  save_files_from(T3, m, order, i + 1)

\* second loop: idx.file_id is the id the first loop stored in the index
RECURSIVE save_all_includes_from(_, _, _, _)
save_all_includes_from(T, m, order, i) ==
    IF i > Len(order) THEN [T |-> T, fm |-> m]
    ELSE
      LET idx == order[i].idx
          r == save_includes(T, m, idx, file_id_of(T, idx.filename),
                             order[i].includes)
      IN  save_all_includes_from(r.T, r.fm, order, i + 1)

\* save_indices with one loop: the includes of an index are saved right
\* after its row, its arguments and its references
RECURSIVE save_indices_one_loop(_, _, _)
save_indices_one_loop(T, m, order) ==
    IF order = << >> THEN [T |-> T, fm |-> m]
    ELSE
      LET one == << Head(order) >>
          r == save_all_includes_from(save_files_from(T, m, one, 1), m, one, 1)
      IN  save_indices_one_loop(r.T, r.fm, Tail(order))

\* _FileManager.save_indices
save_indices(T, m, order) ==
    save_all_includes_from(save_files_from(T, m, order, 1), m, order, 1)

\* the orphans when only the rows of includes whose including file has a
\* row count
orphaned_includes_live(T) ==
    {f.id : f \in {x \in T.files :
        /\ x.is_included
        /\ ~\E i \in T.includes :
              /\ i.included_file_id = x.id
              /\ \E g \in T.files : g.id = i.including_file_id}}

\* _FileManager.remove_orphaned_includes, the two queries: orphans
orphaned_includes(T) ==
    LET all_includes == {f.id : f \in {x \in T.files : x.is_included}}
        included == {i.included_file_id : i \in T.includes}
    IN  all_includes \ included

\* the for loop over the orphans: each DELETE touches files only
remove_orphans(T) ==
    [T EXCEPT !.files = {f \in @ : f.id \notin orphaned_includes(T)}]

\* _FileManager.remove_orphaned_includes
RECURSIVE remove_orphaned_includes(_)
remove_orphaned_includes(T) ==
    IF orphaned_includes(T) = {} THEN T
    ELSE remove_orphaned_includes(remove_orphans(T))

\* _FileManager._query_compile_command, for a path that has a row
query_compile_command(T, path) ==
    LET f == file_row(T, file_id_of(T, path)) IN
    CompileCommand(path,
                   make_compile_args(f.working_dir, args_of(T, f.id),
                                     << >>, {}),
                   f.working_dir, f.is_included)

\* _FileManager._query_including_file: the path of the row of files that the
\* first row of the join names, None when there is no row or the row has no
\* file (the LEFT OUTER JOIN gives NULL, and NULL is last in DESC order)
query_including_file(T, path) ==
    LET included_file_id == file_id_of(T, path)
        hosts == {f \in T.files :
                    \E i \in T.includes :
                       /\ i.included_file_id = included_file_id
                       /\ i.including_file_id = f.id}
    IN  IF included_file_id = NoId \/ hosts = {} THEN None
        ELSE (CHOOSE f \in hosts :
                \A g \in hosts :
                   \/ f.last_update > g.last_update
                   \/ f.last_update = g.last_update /\ f.id <= g.id).path


(***************************************************************************)
(* The parser.  A translation unit is its main file, the files its         *)
(* arguments force in with -include, and every existing file these         *)
(* include, directly or not.  Every file outside EmptyPaths has cursors,   *)
(* all located in the file itself.  They are children of the cursor of the *)
(* unit, except the cursors of a file that is included from inside a       *)
(* declaration of another file: these are children of a cursor located in  *)
(* the including file.                                                     *)
(***************************************************************************)
\* the include directives that stand inside a declaration of the including
\* file: s.h includes h.h inside a namespace
NestedEdges == { <<"/usr/s.h", "/p/h.h">> }

\* the file whose cursor is the parent of the cursors of path in the unit of
\* the command c, None when the parent is the cursor of the unit: path is
\* included first by a file that c forces in, which comes before the main
\* file, and the directive is a nested one
parent_file(c, path) ==
    LET hosts == {e[1] : e \in {x \in fsinc \cap NestedEdges :
                                   /\ x[2] = path
                                   /\ x[1] \in c.args.includes \cap ondisk}}
    IN  IF hosts = {} THEN None ELSE CHOOSE h \in hosts : TRUE

RECURSIVE Closure(_)
Closure(S) ==
    LET N == S \cup {e[2] : e \in {x \in fsinc : x[1] \in S /\ x[2] \in ondisk}}
    IN  IF N = S THEN S ELSE Closure(N)

TranslationUnit(c) ==
    Closure({c.filename} \cup (c.args.includes \cap ondisk))

\* the cursors of a file that reference a declaration with a USR: the USR
\* (named after the file), <<line, column>> and <<is_definition, kind>>;
\* a source declares and defines its function at the same place
Cursors(path) ==
    IF path \in EmptyPaths THEN << >>
    ELSE IF path \in CppPaths
    THEN << [usr |-> path, loc |-> <<2, 1>>, ref |-> <<FALSE, 8>>],
            [usr |-> path, loc |-> <<2, 1>>, ref |-> <<TRUE, 8>>] >>
    ELSE << [usr |-> path, loc |-> <<2, 1>>, ref |-> <<TRUE, 4>>] >>

\* where the directive that includes a file stands in the including file
IncludeLine == 1
IncludeColumn == 1

RECURSIVE add_cursors(_, _, _)
add_cursors(refs_by_usr, cursors, i) ==
    IF i > Len(cursors) THEN refs_by_usr
    ELSE add_cursors(add_reference(refs_by_usr, cursors[i].usr,
                                   cursors[i].loc, cursors[i].ref),
                     cursors, i + 1)

\* Indexer._find_references with Indexer._get_index, over the files of the
\* unit that have cursors: the child indices and the manager
RECURSIVE find_references(_, _, _, _)
find_references(m, src_index, paths, children) ==
    IF paths = {} THEN [children |-> children, fm |-> m]
    ELSE
      LET path == CHOOSE x \in paths : TRUE
          s == should_index(m, path)
          child == Index(make_child_compile_command(src_index, path))
      IN  IF s.ok
          THEN find_references(s.fm, src_index, paths \ {path},
                 children \cup
                 {[child EXCEPT !.references_by_usr =
                     add_cursors(<< >>, Cursors(path), 1)]})
          ELSE find_references(s.fm, src_index, paths \ {path}, children)

\* _sort_includes without the edges of the forced includes
sort_includes_unforced(idx, c, unit) ==
    [idx EXCEPT !.includes =
        {FileInclusion(e[2], IncludeLine, IncludeColumn) :
            e \in {x \in fsinc : x[1] = idx.filename /\ x[1] \in unit
                                 /\ x[2] \in ondisk}}]

\* Indexer._sort_includes, for one index of idx_by_path
sort_includes(idx, c, unit) ==
    [idx EXCEPT !.includes =
        (IF idx.filename = c.filename /\ ~c.is_included
         THEN {FileInclusion(inc, 0, 0) : inc \in c.args.includes}
         ELSE {})
        \cup
        {FileInclusion(e[2], IncludeLine, IncludeColumn) :
            e \in {x \in fsinc : x[1] = idx.filename /\ x[1] \in unit
                                 /\ x[2] \in ondisk}}]

\* Indexer.index, given that the parser produced a unit: the indices of
\* idx_by_path, the manager, and whether there are error diagnostics
index(m, c) ==
    LET unit == TranslationUnit(c)
        src0 == Index(c)
        src_index == [src0 EXCEPT !.references_by_usr =
                         IF c.filename \in unit
                         THEN add_cursors(<< >>, Cursors(c.filename), 1)
                         ELSE << >>]
        files == {x \in unit : Cursors(x) # << >>} \ {c.filename}
        \* the children of the cursor of the unit
        top == {x \in files : parent_file(c, x) = None}
        w1 == find_references(m, src_index, top, {})
        \* the children of a cursor are walked when its file has an index
        walked == {x \in files \ top :
                     \/ parent_file(c, x) = c.filename
                     \/ \E idx \in w1.children :
                           idx.filename = parent_file(c, x)}
        w == find_references(w1.fm, src_index, walked, w1.children)
    IN  [indices |-> {sort_includes(idx, c, unit) :
                         idx \in {src_index} \cup w.children},
         fm |-> w.fm,
         errors |-> \/ \E e \in fsinc : e[1] \in unit /\ e[2] \notin ondisk
                    \/ c.args.includes \ ondisk # {}]

\* the orders in which a dictionary may list its values, or a set its
\* elements
Orders(S) ==
    {o \in [1 .. Cardinality(S) -> S] : \A i, j \in DOMAIN o : o[i] = o[j] => i = j}

\* an index with the orders in which _save_refs and _save_includes may
\* iterate over its references_by_usr and over its includes
IterationsOf(idx) ==
    {[idx |-> idx, usrs |-> u, includes |-> n] :
        u \in Orders(DOMAIN idx.references_by_usr),
        n \in Orders(idx.includes)}

RECURSIVE IterationsAlong(_)
IterationsAlong(o) ==
    IF o = << >> THEN {<< >>}
    ELSE {<<h>> \o t : h \in IterationsOf(Head(o)),
                       t \in IterationsAlong(Tail(o))}

\* the ways save_indices may iterate over the indices of S
Iterations(S) == UNION {IterationsAlong(o) : o \in Orders(S)}


(***************************************************************************)
(* The initial state: a project right after initialize_project, with an    *)
(* empty store, some sources in the compilation database and some include  *)
(* directives in the files.                                                *)
(***************************************************************************)
SourceCandidates == {"/p/a.cpp", "/p/b.cpp", "/p/h.h", "/p/g.h"}
CandidateEdges ==
    { <<"/p/a.cpp", "/p/h.h">>, <<"/p/h.h", "/p/g.h">>,
      <<"/p/b.cpp", "/p/a.cpp">>, <<"/p/b.cpp", "/p/h.h">> }

\* what the patterns of inline_files of config.json may match
InlineChoices == { {}, {"/p/g.h"} }

\* no _make_compile_args call under test
NotMade == CompileArgs(<< <<"", "NotMade">> >>, {}, FALSE)

\* the clock reads 2 * n when run n starts
Now(n) == 2 * n

\* a project whose include directives are among Edges, with the inline
\* patterns and the files written as the first run starts of one of Choices;
\* every other file was written before
InitWith(Edges, Choices) ==
    /\ compdb \in SUBSET CppPaths
    /\ compdb # {}
    /\ nocmd = {}
    /\ ondisk = Paths
    /\ fsinc \in SUBSET Edges
    /\ \E ch \in Choices :
          /\ inlines = ch.inlines
          /\ mtime = [p \in Paths |-> IF p \in ch.written THEN Now(1) ELSE 1]
    /\ disk = EmptyTables
    /\ db = EmptyTables
    /\ before = EmptyTables
    /\ fm = NoManager
    /\ cmd = NoneCommand
    /\ indices = {}
    /\ errors = FALSE
    /\ yielded = << >>
    /\ pc = "idle"
    /\ raised = None
    /\ dirty = FALSE
    /\ runs = 0
    /\ changes = 0
    /\ quiet = FALSE
    /\ rerun = FALSE
    /\ saved = << >>
    /\ references_by_usr = << >>
    /\ calls = << >>

\* no call of _make_compile_args under test
NoCall ==
    /\ argv = << >>
    /\ extra = << >>
    /\ banned = {}
    /\ made = NotMade

Init ==
    /\ InitWith(CandidateEdges,
                {[inlines |-> i, written |-> {}] : i \in InlineChoices})
    /\ NoCall

Idle == pc \in {"idle", "done", "failed"}

(***************************************************************************)
(* The environment changes between two runs.                               *)
(***************************************************************************)
Change ==
    /\ Idle
    /\ changes < MaxChanges
    /\ runs < MaxRuns
    /\ changes' = changes + 1
    /\ quiet' = FALSE
    /\ UNCHANGED <<one_index, one_call, run, disk, inlines>>

\* an entry leaves compile_commands.json
RemoveSource ==
    /\ Change
    /\ \E p \in compdb : compdb' = compdb \ {p}
    /\ UNCHANGED <<nocmd, ondisk, mtime, fsinc>>

\* entries enter compile_commands.json
AddSource ==
    /\ Change
    /\ \E S \in SUBSET ((SourceCandidates \cap ondisk) \ compdb) :
          /\ S # {}
          /\ compdb' = compdb \cup S
    /\ UNCHANGED <<nocmd, ondisk, mtime, fsinc>>

\* a file is deleted, and its entry stays in compile_commands.json or not
DeleteFile ==
    /\ Change
    /\ \E p \in ondisk :
          /\ ondisk' = ondisk \ {p}
          /\ compdb' \in {compdb, compdb \ {p}}
    /\ UNCHANGED <<nocmd, mtime, fsinc>>

\* a file is written: just before the next run starts, or as it starts
Touch ==
    /\ Change
    /\ \E p \in ondisk, t \in {Now(runs + 1) - 1, Now(runs + 1)} :
          mtime' = [mtime EXCEPT ![p] = t]
    /\ UNCHANGED <<compdb, nocmd, ondisk, fsinc>>

\* the compilation database stops giving a command for a path it lists
LoseCommand ==
    /\ Change
    /\ \E p \in compdb \ nocmd : nocmd' = nocmd \cup {p}
    /\ UNCHANGED <<compdb, ondisk, mtime, fsinc>>

(***************************************************************************)
(* update(root).                                                           *)
(***************************************************************************)
\* an exception handler that keeps what the run wrote
RollbackKeepsWrites ==
    /\ db' = db
    /\ disk' = db
    /\ pc' = "failed"

\* an exception leaves the with block of update: the connection rolls back
Rollback ==
    /\ db' = disk
    /\ disk' = disk
    /\ pc' = "failed"

\* the exception e leaves update; the manager and the indexer are dropped
Raise(e) ==
    /\ Rollback
    /\ raised' = e
    /\ dirty' = (db # disk)
    /\ fm' = NoManager
    /\ cmd' = NoneCommand
    /\ indices' = {}
    /\ yielded' = << >>
    /\ errors' = FALSE
    /\ saved' = << >>

\* the with block of update ends: conn.commit()
CommitTables ==
    /\ disk' = db
    /\ db' = db
    /\ pc' = "done"

\* _connect_to_db and the constructor of _FileManager
Construct ==
    /\ Idle
    /\ runs < MaxRuns
    /\ runs' = runs + 1
    /\ LET r == FileManager(disk, Now(runs + 1)) IN
          /\ db' = r.T
          /\ fm' = r.fm
    /\ before' = disk
    /\ rerun' = quiet
    /\ cmd' = NoneCommand
    /\ indices' = {}
    /\ errors' = FALSE
    /\ yielded' = << >>
    /\ saved' = << >>
    /\ pc' = "next"
    /\ raised' = None
    /\ dirty' = FALSE
    /\ UNCHANGED <<one_index, one_call, env, disk, changes, quiet>>

\* update with the command next() returned, after the manager became m:
\* None has no filename
Yield(c, m) ==
    IF c = NoneCommand
    THEN Raise("AttributeError")
    ELSE /\ cmd' = c
         /\ fm' = m
         /\ yielded' = Append(yielded, c)
         /\ pc' = "index"
         /\ UNCHANGED <<db, disk, raised, dirty, indices, errors, saved>>

\* _FileManager.next, first branch
NextSourceToAdd ==
    /\ pc = "next"
    /\ fm.sources_to_add # {}
    /\ \E path \in fm.sources_to_add :
          Yield(get_compile_command(path),
                [fm EXCEPT !.sources_to_add = @ \ {path},
                           !.visited = @ \cup {path}])
    /\ UNCHANGED <<one_index, one_call, env, before, runs, changes, quiet, rerun>>

\* second branch
NextSourceToUpdate ==
    /\ pc = "next"
    /\ fm.sources_to_add = {}
    /\ fm.sources_to_update # {}
    /\ \E path \in fm.sources_to_update :
          LET c == get_compile_command(path)
              m == [fm EXCEPT !.sources_to_update = @ \ {path},
                              !.visited = @ \cup {path}]
          IN  IF c = NoneCommand
              THEN Yield(query_compile_command(db, path), m)
              ELSE Yield(c, m)
    /\ UNCHANGED <<one_index, one_call, env, before, runs, changes, quiet, rerun>>

\* the third branch without the tests of the branches before it
NextHeaderToUpdateFirst ==
    /\ pc = "next"
    /\ fm.headers_to_update # {}
    /\ \E path \in fm.headers_to_update :
          Yield(query_compile_command(db, path),
                [fm EXCEPT !.headers_to_update = @ \ {path},
                           !.visited = @ \cup {path}])
    /\ UNCHANGED <<one_index, one_call, env, before, runs, changes, quiet, rerun>>

\* third branch
NextHeaderToUpdate ==
    /\ pc = "next"
    /\ fm.sources_to_add = {}
    /\ fm.sources_to_update = {}
    /\ fm.headers_to_update # {}
    /\ \E path \in fm.headers_to_update :
          Yield(query_compile_command(db, path),
                [fm EXCEPT !.headers_to_update = @ \ {path},
                           !.visited = @ \cup {path}])
    /\ UNCHANGED <<one_index, one_call, env, before, runs, changes, quiet, rerun>>

\* the last branch when the inline stays in inlines_to_update
NextInlineToUpdateKept ==
    /\ pc = "next"
    /\ fm.sources_to_add = {}
    /\ fm.sources_to_update = {}
    /\ fm.headers_to_update = {}
    /\ fm.inlines_to_update # {}
    /\ \E inline_path \in fm.inlines_to_update :
          LET path == query_including_file(db, inline_path) IN
          IF path # None
          THEN Yield(query_compile_command(db, path),
                     [fm EXCEPT !.visited = @ \cup {path}])
          ELSE /\ fm' = [fm EXCEPT !.inlines_to_update = @ \ {inline_path}]
               /\ UNCHANGED <<cmd, yielded, pc, db, disk, raised, dirty,
                              indices, errors, saved>>
    /\ UNCHANGED <<one_index, one_call, env, before, runs, changes, quiet, rerun>>

\* last branch: one turn of the while loop
NextInlineToUpdate ==
    /\ pc = "next"
    /\ fm.sources_to_add = {}
    /\ fm.sources_to_update = {}
    /\ fm.headers_to_update = {}
    /\ fm.inlines_to_update # {}
    /\ \E inline_path \in fm.inlines_to_update :
          LET path == query_including_file(db, inline_path) IN
          IF path # None
          THEN Yield(query_compile_command(db, path),
                     [fm EXCEPT !.inlines_to_update = @ \ {inline_path},
                                !.visited = @ \cup {path}])
          ELSE /\ fm' = [fm EXCEPT !.inlines_to_update = @ \ {inline_path}]
               /\ UNCHANGED <<cmd, yielded, pc, db, disk, raised, dirty,
                              indices, errors, saved>>
    /\ UNCHANGED <<one_index, one_call, env, before, runs, changes, quiet, rerun>>

\* raise StopIteration
StopIteration ==
    /\ pc = "next"
    /\ fm.sources_to_add = {}
    /\ fm.sources_to_update = {}
    /\ fm.headers_to_update = {}
    /\ fm.inlines_to_update = {}
    /\ pc' = "reclaim"
    /\ UNCHANGED <<one_index, one_call, env, disk, db, before, fm, cmd, indices,
                   errors, yielded, raised, dirty, runs, changes, quiet, rerun,
                   saved>>

\* Indexer(file_manager, cmd).index(), when the parser produces a unit: it
\* does for a main file that exists
IndexUnit ==
    /\ pc = "index"
    /\ cmd.filename \in ondisk
    /\ LET r == index(fm, cmd) IN
          /\ indices' = r.indices
          /\ fm' = r.fm
          /\ errors' = (errors \/ r.errors)
    /\ pc' = "save"
    /\ UNCHANGED <<one_index, one_call, env, disk, db, before, cmd, yielded,
                   raised, dirty, runs, changes, quiet, rerun, saved>>

\* the main file does not exist: parse raises TranslationUnitLoadError
IndexNoUnit ==
    /\ pc = "index"
    /\ cmd.filename \notin ondisk
    /\ Raise("TranslationUnitLoadError")
    /\ UNCHANGED <<one_index, one_call, env, before, runs, changes, quiet, rerun>>

\* file_manager.save_indices(indexer.idx_by_path.values())
SaveIndices ==
    /\ pc = "save"
    /\ \E order \in Iterations(indices) :
          LET r == save_indices(db, fm, order) IN
             /\ db' = r.T
             /\ fm' = r.fm
    /\ saved' = Append(saved, [root |-> cmd.filename,
                                files |-> {idx.filename : idx \in indices}])
    /\ indices' = {}
    /\ pc' = "next"
    /\ UNCHANGED <<one_index, one_call, env, disk, before, cmd, errors, yielded,
                   raised, dirty, runs, changes, quiet, rerun>>

\* file_manager.remove_orphaned_includes()
RemoveOrphans ==
    /\ pc = "reclaim"
    /\ db' = remove_orphaned_includes(db)
    /\ pc' = "commit"
    /\ UNCHANGED <<one_index, one_call, env, disk, before, fm, cmd, indices,
                   errors, yielded, raised, dirty, runs, changes, quiet, rerun,
                   saved>>

\* conn.commit() and the end of the with block
Commit ==
    /\ pc = "commit"
    /\ CommitTables
    /\ quiet' = TRUE
    /\ UNCHANGED <<one_index, one_call, env, before, fm, cmd, indices, errors,
                   yielded, raised, dirty, runs, changes, rerun, saved>>

\* any other exception, KeyboardInterrupt included, at any point of the run
Fail ==
    /\ pc \in {"next", "index", "save", "reclaim", "commit"}
    /\ Raise("Exception")
    /\ UNCHANGED <<one_index, one_call, env, before, runs, changes, quiet, rerun>>

Next ==
    \/ RemoveSource
    \/ AddSource
    \/ DeleteFile
    \/ Touch
    \/ LoseCommand
    \/ Construct
    \/ NextSourceToAdd
    \/ NextSourceToUpdate
    \/ NextHeaderToUpdate
    \/ NextInlineToUpdate
    \/ StopIteration
    \/ IndexUnit
    \/ IndexNoUnit
    \/ SaveIndices
    \/ RemoveOrphans
    \/ Commit
    \/ Fail

Spec == Init /\ [][Next]_vars

(***************************************************************************)
(* A project of two sources and two headers where update runs to its end:  *)
(* a call in progress is completed.  A call of next() returns a command,    *)
(* raises, or drops an inline that no stored file includes and goes on; a   *)
(* call of index() or of save_indices() returns or raises.                  *)
(***************************************************************************)
LiveEdges ==
    { <<"/p/a.cpp", "/p/h.h">>, <<"/p/h.h", "/p/g.h">>,
      <<"/p/b.cpp", "/p/h.h">> }

LiveChoices ==
    { [inlines |-> {}, written |-> {"/p/h.h", "/p/g.h"}],
      [inlines |-> {"/p/g.h"}, written |-> {"/p/g.h"}],
      [inlines |-> {"/p/g.h"}, written |-> {"/p/a.cpp", "/p/h.h", "/p/g.h"}] }

InitLive ==
    /\ InitWith(LiveEdges, LiveChoices)
    /\ compdb = CppPaths
    /\ fsinc = LiveEdges
    /\ NoCall

\* _FileManager.next, a turn of the while loop that returns nothing: the
\* inline popped has no including file
InlineSkip ==
    /\ pc = "next"
    /\ fm.sources_to_add = {}
    /\ fm.sources_to_update = {}
    /\ fm.headers_to_update = {}
    /\ \E inline_path \in fm.inlines_to_update :
          /\ query_including_file(db, inline_path) = None
          /\ fm' = [fm EXCEPT !.inlines_to_update = @ \ {inline_path}]
    /\ UNCHANGED <<cmd, yielded, pc, db, disk, raised, dirty, indices,
                   errors, saved>>
    /\ UNCHANGED <<one_index, one_call, env, before, runs, changes, quiet, rerun>>

\* _FileManager.next is left with a command or with an exception: a pending
\* set of sources or headers is not empty, or an inline has an including file
Yields ==
    /\ pc = "next"
    /\ \/ fm.sources_to_add # {}
       \/ fm.sources_to_update # {}
       \/ fm.headers_to_update # {}
       \/ \E inline_path \in fm.inlines_to_update :
             query_including_file(db, inline_path) # None
    /\ pc' \in {"index", "failed"}

\* indexer.index() or file_manager.save_indices() is left
Returns == pc \in {"index", "save"} /\ pc' \in {"save", "next", "failed"}

SpecLive ==
    /\ InitLive /\ [][Next]_vars
    /\ WF_vars(InlineSkip \/ StopIteration)
    /\ WF_pc(Yields \/ Returns)

(***************************************************************************)
(* The same project when some files are written at the very moment the     *)
(* first run starts: their mtime is the last_update the run stores.        *)
(***************************************************************************)
StaleChoices ==
    { [inlines |-> {}, written |-> {"/p/h.h"}],
      [inlines |-> {"/p/g.h"}, written |-> {"/p/g.h"}],
      [inlines |-> {"/p/g.h"}, written |-> {"/p/a.cpp", "/p/g.h"}],
      [inlines |-> {"/p/g.h", "/p/h.h"}, written |-> {"/p/g.h", "/p/h.h"}] }

InitStale ==
    /\ InitWith(CandidateEdges, StaleChoices)
    /\ NoCall

SpecStale == InitStale /\ [][Next]_vars

(***************************************************************************)
(* remove_orphaned_includes on its own, one turn of its loop at a time,    *)
(* over the stores of at most three files: any of them included, any       *)
(* include between them, also of a file by itself, and includes rows left  *)
(* behind by a file whose row was deleted.                                 *)
(***************************************************************************)
StoredPath == [i \in 1 .. 3 |-> <<"/p/a.cpp", "/p/h.h", "/p/g.h">>[i]]
GoneId == 4

StoresOfFiles ==
    {[EmptyTables EXCEPT
        !.files = {[id |-> i, path |-> StoredPath[i], working_dir |-> Cwd,
                    last_update |-> Now(1), is_included |-> i \in inc] :
                   i \in ids},
        !.includes = {[including_file_id |-> e[1], included_file_id |-> e[2],
                       line |-> IncludeLine, column |-> IncludeColumn] :
                      e \in edges}] :
       ids \in SUBSET (1 .. 3), inc \in SUBSET (1 .. 3),
       edges \in SUBSET ((1 .. GoneId) \X (1 .. 3))}

InitOrphans ==
    /\ compdb = {"/p/a.cpp"}
    /\ nocmd = {}
    /\ ondisk = Paths
    /\ fsinc = {}
    /\ inlines = {}
    /\ mtime = [p \in Paths |-> 1]
    /\ db \in StoresOfFiles
    /\ disk = db
    /\ before = db
    /\ fm = NoManager
    /\ cmd = NoneCommand
    /\ indices = {}
    /\ errors = FALSE
    /\ yielded = << >>
    /\ pc = "reclaim"
    /\ raised = None
    /\ dirty = FALSE
    /\ runs = 1
    /\ changes = 0
    /\ quiet = FALSE
    /\ rerun = FALSE
    /\ saved = << >>
    /\ references_by_usr = << >>
    /\ calls = << >>
    /\ NoCall

\* one turn of the while True loop: break, or delete the orphans
OrphanTurn ==
    /\ pc = "reclaim"
    /\ IF orphaned_includes(db) = {}
       THEN db' = db /\ pc' = "commit"
       ELSE db' = remove_orphans(db) /\ pc' = "reclaim"
    /\ UNCHANGED <<one_index, one_call, env, disk, before, fm, cmd, indices,
                   errors, yielded, raised, dirty, runs, changes, quiet, rerun,
                   saved>>

SpecOrphans == InitOrphans /\ [][OrphanTurn]_vars /\ WF_vars(OrphanTurn)

(***************************************************************************)
(* The same project when s.h, outside of the project root, includes h.h    *)
(* inside a declaration.                                                   *)
(***************************************************************************)
InitNested ==
    /\ InitWith(CandidateEdges \cup NestedEdges,
                {[inlines |-> i, written |-> {}] : i \in InlineChoices})
    /\ NestedEdges \subseteq fsinc
    /\ NoCall

SpecNested == InitNested /\ [][Next]_vars


(***************************************************************************)
(* One _Index on its own: any sequence of add_reference calls.             *)
(***************************************************************************)
Usrs == {"c:@F@f", "c:@S@T"}
Locs == {<<10, 7>>, <<11, 1>>}
\* <<is_definition, kind>>: class declaration and function declaration codes
RefData == {<<FALSE, 4>>, <<TRUE, 4>>, <<FALSE, 8>>, <<TRUE, 8>>}

InitIndex ==
    /\ Init
    /\ compdb = {"/p/a.cpp"}
    /\ fsinc = {}
    /\ inlines = {}

AddReference ==
    /\ Len(calls) < MaxCalls
    /\ \E usr \in Usrs, loc \in Locs, ref \in RefData :
          /\ references_by_usr' = add_reference(references_by_usr, usr, loc, ref)
          /\ calls' = Append(calls, [usr |-> usr, loc |-> loc, ref |-> ref])
    /\ UNCHANGED <<one_call, env, run, disk, changes, quiet>>

SpecIndex == InitIndex /\ [][AddReference]_vars


(***************************************************************************)
(* _make_compile_args on its own: one call on any short command line.      *)
(***************************************************************************)
\* the arguments a command line is made of: -x c++ -DB -I /usr/inc
\* -Xpreprocessor
ArgTokens ==
    { <<"", "-x">>, <<"", "c++">>, <<"-D", "B">>, <<"-I", "">>,
      <<"", "/usr/inc">>, <<"", "-Xpreprocessor">>,
      <<"", "./g.h">>, <<"-include", "../usr/s.h">> }
\* the arguments config.json may ban
BannedTokens == { <<"", "c++">>, <<"", "/usr/inc">>, <<"-D", "B">> }

SeqsUpTo(S, n) == UNION {[1 .. k -> S] : k \in 0 .. n}

InitArgs ==
    /\ InitWith({}, {[inlines |-> {}, written |-> {}]})
    /\ compdb = {"/p/a.cpp"}
    /\ argv \in SeqsUpTo(ArgTokens, MaxArgs)
    /\ extra \in SeqsUpTo(ArgTokens, MaxExtra)
    /\ banned \in SUBSET BannedTokens
    /\ made = NotMade

MakeCompileArgs ==
    /\ made = NotMade
    /\ made' = make_compile_args(Cwd, argv, extra, banned)
    /\ UNCHANGED <<one_index, argv, extra, banned, env, run, disk, changes, quiet>>

\* the command that has the arguments made is indexed, and save_indices
\* saves the index of its file and the index of a header it includes; the
\* same again when they are stored already
SaveMade ==
    /\ made # NotMade
    /\ Len(saved) < MaxSaves
    /\ LET c == CompileCommand("/p/a.cpp", made, Cwd, FALSE)
           src_index == Index(c)
           child == Index(make_child_compile_command(src_index, "/p/h.h"))
           m == [NoManager EXCEPT !.now = Now(1)]
       IN  /\ cmd' = c
           /\ indices' = {src_index, child}
           /\ \E order \in Iterations(indices') :
                 db' = save_indices(db, m, order).T
           /\ saved' = Append(saved, [root |-> c.filename,
                                      files |-> {c.filename, child.filename}])
    /\ UNCHANGED <<one_index, one_call, env, disk, before, fm, errors, yielded,
                   pc, raised, dirty, runs, changes, quiet, rerun>>

SpecArgs == InitArgs /\ [][MakeCompileArgs \/ SaveMade]_vars


(***************************************************************************)
(* Properties.                                                             *)
(***************************************************************************)
\* update has returned and the environment is as the run found it
Committed == pc = "done" /\ quiet

Range(q) == {q[i] : i \in DOMAIN q}
HasRow(T, id) == \E f \in T.files : f.id = id
RefsOf(T, id) == {r \in T.refs : r.file_id = id}
OutboundOf(T, id) == {i \in T.includes : i.including_file_id = id}

\* C1: when a step of update raises after the connection is opened, the
\* committed contents of every table after the failed run are the committed
\* contents before the run.
C1_RollbackRestores == pc = "failed" => disk = before

\* a run failed after it had written to tables of a store that was not empty
C1_Witness == pc = "failed" /\ dirty /\ before.files # {}

\* C2: after every successful update every row of includes, refs and
\* compile_args references an existing row of files.
C2_NoDanglingRow ==
    Committed =>
       /\ \A i \in disk.includes :
             HasRow(disk, i.including_file_id) /\ HasRow(disk, i.included_file_id)
       /\ \A r \in disk.refs : HasRow(disk, r.file_id)
       /\ \A r \in disk.compile_args : HasRow(disk, r.file_id)

\* C3: after every successful update every row of files with is_included true
\* is the target of an includes row whose including file exists.
C3_NoOrphanCommitted ==
    Committed =>
       \A f \in disk.files :
          f.is_included =>
             \E i \in disk.includes :
                /\ i.included_file_id = f.id
                /\ HasRow(disk, i.including_file_id)

\* C4: after every successful update every row of files with is_included
\* false has a path of the compilation database.
C4_SourcesAreListed ==
    Committed => \A f \in disk.files : ~f.is_included => f.path \in compdb

\* C5, as claimed: a run that follows a successful run, with no change of the
\* filesystem or the compilation database between them, yields no command
\* and writes nothing.
C5_Idempotent ==
    Committed /\ rerun => yielded = << >> /\ disk = before

\* needs_update() is false of every stored file that exists: its mtime is
\* strictly before its last_update
NothingStale(T) ==
    \A f \in T.files : f.path \in ondisk => mtime[f.path] < f.last_update

\* C5, amended: a run that follows a successful run, with no change of the
\* filesystem or the compilation database between them, yields no command
\* and writes nothing when, in the store the first run left, every stored
\* file that exists has an mtime strictly before its last_update.  The
\* condition is last_update > mtime and not last_update >= mtime: at
\* equality needs_update() is true, and the law does not reach these stores.
C5_IdempotentWhenNothingStale ==
    Committed /\ rerun /\ NothingStale(before) =>
       yielded = << >> /\ disk = before

\* a second run over a store of three files, none of them stale
C5_Witness ==
    /\ Committed /\ rerun /\ NothingStale(before)
    /\ Cardinality(before.files) >= 3

\* the references of the calls made for usr at loc
CalledWith(usr, loc) ==
    {calls[i].ref : i \in {j \in DOMAIN calls :
                              calls[j].usr = usr /\ calls[j].loc = loc}}

\* (is_definition, kind) tuples in their order: False before True, then kinds
TupleLeq(a, b) == (~a[1] /\ b[1]) \/ (a[1] = b[1] /\ a[2] <= b[2])
Greatest(S) == CHOOSE r \in S : \A o \in S : TupleLeq(o, r)

\* C6: after any sequence of add_reference calls, a USR and a place that were
\* given in a call hold exactly the greatest (is_definition, kind) of these
\* calls, whatever their order; so is_definition is true when one of them was
\* a definition; and nothing else is held.
C6_GreatestReferenceSurvives ==
    /\ \A usr \in Usrs, loc \in Locs :
          LET given == CalledWith(usr, loc) IN
          IF given = {}
          THEN usr \in DOMAIN references_by_usr
                  => loc \notin DOMAIN references_by_usr[usr]
          ELSE /\ usr \in DOMAIN references_by_usr
               /\ loc \in DOMAIN references_by_usr[usr]
               /\ references_by_usr[usr][loc] = Greatest(given)
               /\ (\E r \in given : r[1]) => references_by_usr[usr][loc][1]
    /\ DOMAIN references_by_usr \subseteq Usrs
    /\ \A usr \in DOMAIN references_by_usr :
          DOMAIN references_by_usr[usr] \subseteq Locs

\* a definition, then a declaration of a greater kind at the same place, and
\* the definition is what is held
C6_Witness ==
    /\ Len(calls) >= 2
    /\ calls[1].usr = calls[2].usr /\ calls[1].loc = calls[2].loc
    /\ calls[1].ref = <<TRUE, 4>> /\ calls[2].ref = <<FALSE, 8>>
    /\ references_by_usr[calls[1].usr][calls[1].loc][1]

\* the row of includes for the edge (0, 0) of a forced include
ForcedEdge(T, source, path) ==
    \E i \in T.includes :
       /\ i.line = 0 /\ i.column = 0
       /\ i.including_file_id = file_id_of(T, source)
       /\ i.included_file_id = file_id_of(T, path)
       /\ file_id_of(T, source) # NoId
       /\ file_id_of(T, path) # NoId

\* C7, as claimed: after a successful update every source indexed as a root
\* has an edge (0, 0) to every path of its forced includes.
C7_ForcedIncludeEdges ==
    Committed =>
       \A c \in Range(yielded) : ~c.is_included =>
          \A path \in c.args.includes : ForcedEdge(disk, c.filename, path)

\* C7, amended: the same for the forced includes under the project root that
\* the compilation database does not list.
C7_ForcedIncludeEdgesUnderRoot ==
    Committed =>
       \A c \in Range(yielded) : ~c.is_included =>
          \A path \in (c.args.includes \cap RootPaths) \ compdb :
             ForcedEdge(disk, c.filename, path)

\* a source with a forced include under the root was indexed, the header had
\* no row before the run, and the edge is stored
C7_Witness ==
    /\ Committed
    /\ \E c \in Range(yielded) :
          /\ ~c.is_included
          /\ "/p/g.h" \in c.args.includes
          /\ file_id_of(before, "/p/g.h") = NoId
          /\ ForcedEdge(disk, c.filename, "/p/g.h")

\* the ids of the files of T that the files with the ids of S include,
\* directly or not
RECURSIVE IncludedBy(_, _)
IncludedBy(T, S) ==
    LET N == S \cup {i.included_file_id :
                       i \in {x \in T.includes : x.including_file_id \in S
                                                /\ HasRow(T, x.included_file_id)}}
    IN  IF N = S THEN S ELSE IncludedBy(T, N)

\* the stored sources that exist and left the compilation database
RemovedSources ==
    {f \in before.files : ~f.is_included /\ f.path \in ondisk /\ f.path \notin compdb}
\* the stored sources that exist and are still listed
RemainingSources ==
    {f \in before.files :
        ~f.is_included /\ f.path \in ondisk /\ f.path \in compdb}

\* C8: a stored source that left the compilation database and that a
\* remaining source includes, directly or not, keeps its row, with is_included
\* true and with its refs, arguments and outbound includes; any other one has
\* no row after the update, and no header is left without an includer.
C8_RemovedSourceDemotedOrDeleted ==
    Committed =>
       \A f \in RemovedSources :
          IF f.id \in IncludedBy(before, {s.id : s \in RemainingSources})
          THEN /\ \E g \in disk.files :
                     g.id = f.id /\ g.path = f.path /\ g.is_included
               /\ RefsOf(before, f.id) \subseteq RefsOf(disk, f.id)
               /\ args_of(disk, f.id) = args_of(before, f.id)
               /\ f.path \in fm.visited =>
                     OutboundOf(before, f.id) = OutboundOf(disk, f.id)
          ELSE /\ file_id_of(disk, f.path) = NoId
               /\ \A h \in disk.files :
                     h.is_included =>
                        \E i \in disk.includes :
                           /\ i.included_file_id = h.id
                           /\ HasRow(disk, i.including_file_id)

\* C9: when the compilation database has no command for a path it lists, the
\* run does not end with the exception of update on a None command, and after
\* the run the row of the path, its arguments, refs and outbound includes are
\* as they were.
C9_MissingCommandSkipped ==
    /\ ~(pc = "failed" /\ raised = "AttributeError")
    /\ Committed =>
          \A path \in compdb \cap nocmd :
             LET id == file_id_of(before, path) IN
             /\ {f \in disk.files : f.path = path}
                   = {f \in before.files : f.path = path}
             /\ id # NoId =>
                   /\ args_of(disk, id) = args_of(before, id)
                   /\ RefsOf(disk, id) = RefsOf(before, id)
                   /\ OutboundOf(disk, id) = OutboundOf(before, id)

\* C10: a parse that produces no unit does not end the run.
C10_ParseFailureNotFatal ==
    ~(pc = "failed" /\ raised = "TranslationUnitLoadError")

\* C11: after _make_compile_args no argument of argv or extra that is equal
\* to a member of banned is among the all_args of the result.
C11_BannedArgsDropped ==
    made # NotMade =>
       \A e \in (Range(argv) \cup Range(extra)) \cap banned :
          e \notin Range(made.all_args)

\* the row of includes for the directive of source that includes path
DirectiveEdge(T, source, path) ==
    \E i \in T.includes :
       /\ i.line = IncludeLine /\ i.column = IncludeColumn
       /\ i.including_file_id = file_id_of(T, source)
       /\ i.included_file_id = file_id_of(T, path)
       /\ file_id_of(T, source) # NoId
       /\ file_id_of(T, path) # NoId

\* C12: after a successful update that started from an empty store, every
\* source S of the compilation database and every existing header H under the
\* project root that S includes directly and that the compilation database
\* does not list have their rows, S with is_included false and H with
\* is_included true, and includes has the edge of the directive.
C12_SourceHeaderEdge ==
    Committed /\ before = EmptyTables =>
       \A S \in compdb, H \in (RootPaths \cap ondisk) \ compdb :
          <<S, H>> \in fsinc =>
             /\ \E f \in disk.files : f.path = S /\ ~f.is_included
             /\ \E f \in disk.files : f.path = H /\ f.is_included
             /\ DirectiveEdge(disk, S, H)

\* two sources include the same header, b.cpp was indexed first, and both
\* edges are stored
C12_Witness ==
    /\ Committed /\ before = EmptyTables
    /\ compdb = {"/p/a.cpp", "/p/b.cpp"}
    /\ {<<"/p/a.cpp", "/p/h.h">>, <<"/p/b.cpp", "/p/h.h">>} \subseteq fsinc
    /\ yielded[1].filename = "/p/b.cpp"
    /\ DirectiveEdge(disk, "/p/a.cpp", "/p/h.h")
    /\ DirectiveEdge(disk, "/p/b.cpp", "/p/h.h")

\* C13: the four work sets of the file manager are pairwise disjoint.
C13_WorkSetsDisjoint ==
    LET sets == << fm.sources_to_add, fm.sources_to_update,
                   fm.headers_to_update, fm.inlines_to_update >>
    IN  \A i, j \in 1 .. 4 : i < j => sets[i] \cap sets[j] = {}

\* C14: when a unit is indexed, every file of the unit that has cursors and
\* that is the file of the command or is admitted by should_index has an
\* index that holds the references of its cursors, also when the cursors are
\* children of a cursor located in a file that should_index rejects.
C14_WalkReachesChildren ==
    [][pc = "index" /\ pc' = "save" =>
         \A path \in TranslationUnit(cmd) :
            /\ Cursors(path) # << >>
            /\ (path = cmd.filename \/ should_index(fm, path).ok)
            => \E idx \in indices' :
                  /\ idx.filename = path
                  /\ idx.references_by_usr = add_cursors(<< >>, Cursors(path), 1)
      ]_vars

\* a run is going on or has committed, and the environment is as the
\* constructor of the manager saw it
InRun == pc \in {"next", "index", "save", "reclaim", "commit"} \/ Committed

\* the constructor of the manager deletes the row of f: a source that
\* exists, that left the compilation database and that no row of includes
\* names as included
Removed(f) ==
    /\ ~f.is_included
    /\ f.path \in ondisk
    /\ f.path \notin compdb
    /\ ~\E e \in before.includes : e.included_file_id = f.id

\* the stored files the constructor of the manager puts in visited: they
\* exist, it does not delete their row, and they are not stale
NotStale ==
    {f \in before.files :
        f.path \in ondisk /\ ~Removed(f) /\ ~needs_update(f)}

\* the files of the commands the iterator yielded in the run
YieldedPaths == {yielded[i].filename : i \in DOMAIN yielded}

\* the files of the indices saved in the run
SavedPaths == UNION {saved[i].files : i \in DOMAIN saved}

\* no save of the run wrote the stored file f: no index of f was saved, and
\* its row, while it is there, has the time, the directory, the arguments,
\* the references and the outbound include edges it had; the constructor
\* may have demoted it
Unwritten(f) ==
    /\ f.path \notin SavedPaths
    /\ \A g \in db.files :
          g.id = f.id /\ g.path = f.path =>
             /\ g.last_update = f.last_update
             /\ g.working_dir = f.working_dir
             /\ g.is_included = f.is_included
                \/ (g.is_included /\ f.path \notin compdb)
             /\ args_of(db, g.id) = args_of(before, f.id)
             /\ RefsOf(db, g.id) = RefsOf(before, f.id)
             /\ OutboundOf(db, g.id) = OutboundOf(before, f.id)

C16_SavedAtMostOnce ==
    \A i, j \in DOMAIN saved :
       i < j => saved[i].files \cap saved[j].files = {}

\* C17: no index saved as a child of a unit is the index of a path that is
\* pending in sources_to_add or in sources_to_update, also when the path is
\* at the same time a stale stored included file.
C17_PendingSourceNotChild ==
    pc = "save" =>
       \A idx \in indices :
          idx.is_included =>
             idx.filename \notin fm.sources_to_add \cup fm.sources_to_update

\* C18: a command is requested when every command yielded before has been
\* saved, in the order of the yields; a path of sources_to_update is yielded
\* when sources_to_add is empty, a path of headers_to_update when both sets
\* of sources are empty, the host of an inline when headers_to_update is
\* empty too; and a save is the save of the command yielded last.
C18_DrainOrder ==
    [][/\ Len(yielded') = Len(yielded) + 1 =>
            /\ Len(saved) = Len(yielded)
            /\ \A i \in DOMAIN saved : saved[i].root = yielded[i].filename
            /\ fm'.sources_to_update # fm.sources_to_update =>
                  fm.sources_to_add = {}
            /\ fm'.headers_to_update # fm.headers_to_update =>
                  fm.sources_to_add = {} /\ fm.sources_to_update = {}
            /\ fm'.inlines_to_update # fm.inlines_to_update =>
                  /\ fm.sources_to_add = {}
                  /\ fm.sources_to_update = {}
                  /\ fm.headers_to_update = {}
       /\ Len(saved') = Len(saved) + 1 =>
            /\ Len(saved') = Len(yielded)
            /\ saved'[Len(saved')].root = yielded[Len(yielded)].filename
            /\ pc' = "next"
      ]_vars

\* a run committed after it yielded and saved a new source, then a stale
\* source, then a stale header
C18_Witness ==
    /\ Committed
    /\ Len(yielded) >= 3
    /\ Len(saved) = Len(yielded)
    /\ yielded[1].filename \notin {f.path : f \in before.files}
    /\ \E f \in before.files : f.path = yielded[2].filename /\ ~f.is_included
    /\ \E f \in before.files : f.path = yielded[3].filename /\ f.is_included

\* the stored files that include the stored file path
Includers(T, path) ==
    {f \in T.files :
       \E g \in T.files, e \in T.includes :
          /\ g.path = path
          /\ e.included_file_id = g.id
          /\ e.including_file_id = f.id}

\* the iterator takes an inline out of inlines_to_update
InlineTurn ==
    /\ pc = "next"
    /\ fm.sources_to_add = {} /\ fm.sources_to_update = {}
    /\ fm.headers_to_update = {}
    /\ fm'.inlines_to_update # fm.inlines_to_update
    /\ pc' # "failed"

\* C19: when the iterator takes a stale inline header out of
\* inlines_to_update, it yields the stored command of the stored file that
\* includes the inline with the greatest last_update, the smallest id on
\* ties, and this file is not a stale inline header that is still pending;
\* when no stored file includes the inline it yields nothing and goes on
\* with the inlines that remain.
C19_InlineThroughHost ==
    [][InlineTurn =>
         \E inline \in fm.inlines_to_update :
            /\ fm'.inlines_to_update = fm.inlines_to_update \ {inline}
            /\ IF Includers(db, inline) = {}
               THEN yielded' = yielded /\ pc' = "next" /\ db' = db
               ELSE \E host \in Includers(db, inline) :
                      /\ \A g \in Includers(db, inline) :
                            \/ g.last_update < host.last_update
                            \/ g.last_update = host.last_update /\ host.id <= g.id
                      /\ yielded' = Append(yielded, cmd')
                      /\ cmd'.filename = host.path
                      /\ cmd'.current_dir = host.working_dir
                      /\ cmd'.is_included = host.is_included
                      /\ cmd'.args = make_compile_args(host.working_dir,
                                         args_of(db, host.id), << >>, {})
                      /\ host.path \notin fm.inlines_to_update
      ]_vars

\* C20: when a batch of indices is saved, every include of an index of the
\* batch whose target is the file of an index of the batch is a row of
\* includes, from the row of the including index to the row that the batch
\* saved for the target, in whatever order the batch is saved.
C20_EdgesWithinBatch ==
    [][pc = "save" /\ pc' = "next" =>
         \A idx \in indices, target \in indices :
            \A inc \in idx.includes :
               inc.included_path = target.filename =>
                  \E f \in db'.files, g \in db'.files :
                     /\ f.path = idx.filename
                     /\ g.path = target.filename
                     /\ g.last_update = fm.now
                     /\ g.is_included = target.is_included
                     /\ [including_file_id |-> f.id, included_file_id |-> g.id,
                         line |-> inc.line, column |-> inc.column]
                           \in db'.includes
      ]_vars

\* a batch of a source and of a header that was not stored has been saved,
\* and the source includes the header
C20_Witness ==
    /\ pc = "next"
    /\ saved # << >>
    /\ LET batch == saved[Len(saved)] IN
          \E f \in db.files, g \in db.files :
             /\ f.path = batch.root
             /\ g.path \in batch.files \ {batch.root}
             /\ g.path \notin {x.path : x \in before.files}
             /\ \E e \in db.includes :
                   e.including_file_id = f.id /\ e.included_file_id = g.id

\* C21: a turn of the loop of remove_orphaned_includes that does not leave
\* the loop deletes a row of files with is_included true and adds none; the
\* loop is left exactly when every row of files with is_included true is
\* the included file of a row of includes; and the loop is left in the end.
C21_OrphanLoopTerminates ==
    /\ [][pc = "reclaim" /\ pc' = "reclaim" =>
            /\ db'.files \subseteq db.files
            /\ \E f \in db.files \ db'.files : f.is_included]_vars
    /\ [][pc = "reclaim" =>
            (pc' = "commit" <=>
               \A f \in db.files :
                  f.is_included =>
                     \E i \in db.includes : i.included_file_id = f.id)]_vars
    /\ <>(pc = "commit")

\* the loop is left after it deleted an orphan that was the only includer of
\* an included file, which stays
C21_Witness ==
    /\ pc = "commit"
    /\ \E f \in before.files \ db.files, g \in db.files :
          /\ f.is_included /\ g.is_included
          /\ \A i \in db.includes :
                i.included_file_id = g.id => i.including_file_id = f.id
          /\ \E i \in db.includes : i.included_file_id = g.id

\* C22: for every index that save_indices saved, the rows of compile_args of
\* its file read in the order of their ids are the arguments of the index,
\* and the command _query_compile_command makes of the rows, which passes
\* them through _make_compile_args again, has the same arguments.
C22_ArgsRoundTrip ==
    made # NotMade /\ saved # << >> =>
       \A idx \in indices :
          /\ args_of(db, file_id_of(db, idx.filename)) = idx.args.all_args
          /\ query_compile_command(db, idx.filename).args.all_args
                = idx.args.all_args

\* a command with a relative forced include and an argument that is dropped
\* has been saved twice, with a header that got -x c++ in front
C22_Witness ==
    /\ made # NotMade /\ Len(saved) = 2
    /\ Len(made.all_args) < Len(argv \o extra)
    /\ <<"-include", "/usr/s.h">> \in Range(made.all_args)
    /\ \E idx \in indices :
          /\ idx.is_included
          /\ Len(idx.args.all_args) = Len(made.all_args) + 2
          /\ args_of(db, file_id_of(db, idx.filename)) = idx.args.all_args

\* the ids of the rows of files of T that the rows with the ids S reach
\* through rows of includes
RECURSIVE ReachableFrom(_, _)
ReachableFrom(T, S) ==
    LET step == {f.id : f \in {x \in T.files :
                    \E i \in T.includes :
                       /\ i.including_file_id \in S
                       /\ i.included_file_id = x.id}}
    IN  IF step \subseteq S THEN S ELSE ReachableFrom(T, S \cup step)

\* C23: after a successful update every row of files with is_included true
\* is reached, through rows of includes between rows of files, from a row
\* with is_included false.
C23_IncludedReachable ==
    Committed =>
       \A f \in disk.files :
          f.is_included =>
             f.id \in ReachableFrom(disk,
                        {g.id : g \in {x \in disk.files : ~x.is_included}})

\* the rows of files and of includes without their ids: paths in their place
PathOfId(T, id) ==
    IF \E f \in T.files : f.id = id THEN file_row(T, id).path ELSE None

StoredView(T) ==
    [files |-> {<<f.path, f.is_included>> : f \in T.files},
     includes |-> {<<PathOfId(T, i.including_file_id),
                     PathOfId(T, i.included_file_id), i.line, i.column>> :
                   i \in T.includes}]

\* the tables that update can commit when it goes on from the tables T and
\* the manager m: one for each order in which next() can pop the work sets
\* and save_indices can iterate; an order in which the run raises commits
\* nothing
RECURSIVE Outcomes(_, _)
RECURSIVE OutcomesOf(_, _, _)
OutcomesOf(T, m, c) ==
    IF c = NoneCommand \/ c.filename \notin ondisk THEN {}
    ELSE LET r == index(m, c) IN
         UNION {Outcomes(save_indices(T, r.fm, order).T,
                         save_indices(T, r.fm, order).fm) :
                order \in Iterations(r.indices)}

Outcomes(T, m) ==
    IF m.sources_to_add # {}
    THEN UNION {OutcomesOf(T, [m EXCEPT !.sources_to_add = @ \ {path},
                                         !.visited = @ \cup {path}],
                           get_compile_command(path)) :
                path \in m.sources_to_add}
    ELSE IF m.sources_to_update # {}
    THEN UNION {OutcomesOf(T, [m EXCEPT !.sources_to_update = @ \ {path},
                                         !.visited = @ \cup {path}],
                           IF get_compile_command(path) = NoneCommand
                           THEN query_compile_command(T, path)
                           ELSE get_compile_command(path)) :
                path \in m.sources_to_update}
    ELSE IF m.headers_to_update # {}
    THEN UNION {OutcomesOf(T, [m EXCEPT !.headers_to_update = @ \ {path},
                                         !.visited = @ \cup {path}],
                           query_compile_command(T, path)) :
                path \in m.headers_to_update}
    ELSE IF m.inlines_to_update # {}
    THEN UNION {LET path == query_including_file(T, inline_path)
                    m1 == [m EXCEPT !.inlines_to_update = @ \ {inline_path}]
                IN  IF path = None THEN Outcomes(T, m1)
                    ELSE OutcomesOf(T, [m1 EXCEPT !.visited = @ \cup {path}],
                                    query_compile_command(T, path)) :
                inline_path \in m.inlines_to_update}
    ELSE {remove_orphaned_includes(T)}

\* C24: when the manager of a run is constructed, the paths and is_included
\* of the rows of files and the paths, lines and columns of the rows of
\* includes that the run commits are the same for every order in which the
\* iterator pops the work sets.
C24_PopOrderIrrelevant ==
    pc = "next" /\ yielded = << >> =>
       Cardinality({StoredView(T) : T \in Outcomes(db, fm)}) <= 1

\* C25: after a successful update every path that the compilation database
\* lists and gives a command for has a row of files with is_included false.
C25_ListedPathsAreSources ==
    Committed =>
       \A path \in compdb \ nocmd :
          \E f \in disk.files : f.path = path /\ ~f.is_included

\* a run committed that found a listed path stored as an included file, and
\* that indexed a unit which includes this path
C25_Witness ==
    /\ Committed
    /\ \E path \in compdb \ nocmd :
          /\ \E f \in before.files : f.path = path /\ f.is_included
          /\ \E f \in disk.files : f.path = path /\ ~f.is_included
          /\ \E i \in DOMAIN yielded :
                /\ yielded[i].filename # path
                /\ path \in TranslationUnit(yielded[i])

\* C26: after a successful update, a stored file that exists and was stale
\* when the run started has no row of files, or a row with the time of the
\* run as last_update.
C26_StaleReindexedOrGone ==
    Committed =>
       \A f \in before.files :
          f.path \in ondisk /\ needs_update(f) =>
             \A g \in disk.files :
                g.path = f.path => g.last_update = Now(runs)

\* the sizes of the four pending sets of a manager, added up
Pending(m) ==
    Cardinality(m.sources_to_add) + Cardinality(m.sources_to_update)
      + Cardinality(m.headers_to_update) + Cardinality(m.inlines_to_update)

\* a step of a run that is not its failure
RunStep == pc \in {"next", "index", "save"} /\ pc' # "failed"

\* visited keeps its elements and no pending set gets a new one
Monotone ==
    /\ fm.visited \subseteq fm'.visited
    /\ fm'.sources_to_add \subseteq fm.sources_to_add
    /\ fm'.sources_to_update \subseteq fm.sources_to_update
    /\ fm'.headers_to_update \subseteq fm.headers_to_update
    /\ fm'.inlines_to_update \subseteq fm.inlines_to_update

\* a command was yielded
Yielding == Len(yielded') = Len(yielded) + 1

\* C27: during a run visited only grows and the pending sets only shrink; a
\* call of next() that yields a command takes an element out of a pending
\* set; the commands yielded so far and the elements still pending are
\* never more than the elements pending when the manager was constructed;
\* and the iteration ends: StopIteration is raised, or the run fails.
C27_IterationTerminates ==
    /\ [][RunStep => Monotone]_vars
    /\ [][Yielding => Pending(fm') < Pending(fm)]_vars
    /\ [](InRun =>
            Len(yielded) + Pending(fm)
              <= Pending(FileManager(before, Now(runs)).fm))
    /\ (pc = "next") ~> (pc \in {"reclaim", "failed"})

\* StopIteration was raised after two commands or more, fewer than the
\* elements pending at construction: a parse took one out of a pending set
C27_Witness ==
    /\ pc = "reclaim"
    /\ Len(yielded) >= 2
    /\ Len(yielded) < Pending(FileManager(before, Now(runs)).fm)

====
